---- MODULE Spec2Model ----
(***************************************************************************)
(* A model of rust/core-lib/src/config.rs: the layered configuration       *)
(* manager of xi-editor (ConfigPair, KeyValidator, ConfigManager,          *)
(* TableStack and Config<BufferItems>).                                    *)
(*                                                                         *)
(* A serde_json Value is a record [t, n, s, l]; a Table is a function from *)
(* a finite set of key strings to Values; an Option is a record            *)
(* [some, val]; a HashMap is a function whose DOMAIN is its key set; a     *)
(* path is a sequence of components, absolute when it starts with "/".     *)
(* An Arc<Table> is an address [dom, gen] into heap, the tables allocated  *)
(* by Arc::new and still referenced by a pair or by a held Config.         *)
(***************************************************************************)
EXTENDS Integers, Sequences, FiniteSets, TLC

VARIABLES configs, sources, config_dir, extras_dir, heap, snap, held, ret,
          last, pre, budget

vars == <<configs, sources, config_dir, extras_dir, heap, snap, held, ret,
          last, pre, budget>>

(***************************************************************************)
(* Bounds of the exploration.                                              *)
(***************************************************************************)
\* number of calls made on the manager in one behaviour of Spec
MaxOps == 2
\* number of calls made on the manager in one behaviour of SpecDeep
MaxDeepOps == 3
\* number of tables of a TableStack in SpecStack
MaxStack == 2
\* number of calls made on the manager in one behaviour of SpecPaths
MaxPathOps == 4
\* number of calls made in one behaviour of SpecSnap
MaxSnapOps == 4

(***************************************************************************)
(* serde_json::Value                                                       *)
(***************************************************************************)
Null == [t |-> "null", n |-> 0, s |-> "", l |-> <<>>]
Num(n) == [t |-> "num", n |-> n, s |-> "", l |-> <<>>]
Str(s) == [t |-> "str", n |-> 0, s |-> s, l |-> <<>>]
Bool(b) == [t |-> "bool", n |-> IF b THEN 1 ELSE 0, s |-> "", l |-> <<>>]
Arr(l) == [t |-> "arr", n |-> 0, s |-> "", l |-> l]

is_null(v) == v.t = "null"

\* Table::new()
EmptyTable == [k \in {} |-> Null]

\* Option<T>
None == [some |-> FALSE, val |-> EmptyTable]
Some(x) == [some |-> TRUE, val |-> x]
NoPath == [some |-> FALSE, val |-> <<>>]
NoName == [some |-> FALSE, val |-> ""]
NoValue == [some |-> FALSE, val |-> Null]

\* Option<Table>::clone().unwrap_or_default()
unwrap_or_default(o) == IF o.some THEN o.val ELSE EmptyTable

(***************************************************************************)
(* ConfigDomain                                                            *)
(***************************************************************************)
General == [kind |-> "General", id |-> ""]
Syntax(s) == [kind |-> "Syntax", id |-> s]
UserOverride(v) == [kind |-> "UserOverride", id |-> v]
SysOverride(v) == [kind |-> "SysOverride", id |-> v]

\* the SyntaxDefinitions and ViewIdentifiers the calls range over
Syntaxes == {"Yaml", "Makefile", "Rust"}
Views == {"view-id-1"}

Domains ==
    {General} \cup {Syntax(s) : s \in Syntaxes}
              \cup {UserOverride(v) : v \in Views}
              \cup {SysOverride(v) : v \in Views}

(***************************************************************************)
(* mod defaults                                                            *)
(***************************************************************************)
GENERAL_KEYS ==
    {"tab_size", "line_ending", "translate_tabs_to_spaces", "font_face", "font_size"}

TOP_LEVEL_KEYS == {"plugin_search_path"}

\* assets/defaults.toml
BASE ==
    [k \in GENERAL_KEYS \cup TOP_LEVEL_KEYS |->
        CASE k = "tab_size" -> Num(4)
          [] k = "line_ending" -> Str("LF")
          [] k = "translate_tabs_to_spaces" -> Bool(TRUE)
          [] k = "font_face" -> Str("InconsolataGo")
          [] k = "font_size" -> Num(14)
          [] k = "plugin_search_path" -> Arr(<< <<"plugins">> >>)]

\* assets/yaml.toml
YAML ==
    [k \in {"tab_size", "translate_tabs_to_spaces"} |->
        IF k = "tab_size" THEN Num(2) ELSE Bool(TRUE)]

\* assets/makefile.toml
MAKEFILE == [k \in {"translate_tabs_to_spaces"} |-> Bool(FALSE)]

\* platform_overrides() is None unless target_os = "windows"
defaults_for_domain(domain) ==
    CASE domain = General -> Some(BASE)
      [] domain = Syntax("Yaml") -> Some(YAML)
      [] domain = Syntax("Makefile") -> Some(MAKEFILE)
      [] OTHER -> None

(***************************************************************************)
(* KeyValidator                                                            *)
(***************************************************************************)
\* a validator that accepts the top-level keys for every domain
KeyValidator_top_level_everywhere(d) == GENERAL_KEYS \cup TOP_LEVEL_KEYS

KeyValidator_for_domain(d) ==
    IF d.kind = "General" THEN GENERAL_KEYS \cup TOP_LEVEL_KEYS ELSE GENERAL_KEYS

\* Ok(()) or Err(IllegalKey(key))
Ok == [ok |-> TRUE, key |-> ""]
IllegalKey(key) == [ok |-> FALSE, key |-> key]

\* validate that accepts every key
validate_accepts_all(keys, key, value) == Ok

validate(keys, key, value) == IF key \in keys THEN Ok ELSE IllegalKey(key)

\* Table (serde_json::Map, a BTreeMap unless built with preserve_order)
\* iterates its entries in the order of their keys
KeyOrder ==
    << "font_face", "font_frace", "font_size", "line_ending",
       "plugin_search_path", "tab_size", "translate_tabs_to_spaces" >>

RECURSIVE validate_from(_, _, _)
validate_from(keys, table, i) ==
    IF i > Len(KeyOrder) THEN Ok
    ELSE IF KeyOrder[i] \in DOMAIN table
            /\ ~validate(keys, KeyOrder[i], table[KeyOrder[i]]).ok
         THEN validate(keys, KeyOrder[i], table[KeyOrder[i]])
         ELSE validate_from(keys, table, i + 1)

validate_table(keys, table) == validate_from(keys, table, 1)

(***************************************************************************)
(* ConfigPair                                                              *)
(***************************************************************************)
for_domain(domain) ==
    [ base |-> defaults_for_domain(domain),
      user |-> None,
      cache |-> unwrap_or_default(defaults_for_domain(domain)),
      arc |-> [dom |-> domain, gen |-> 0],
      validator |-> KeyValidator_for_domain(domain) ]

\* rebuild with the entries of base taking precedence over those of user
rebuild_base_wins(pair) ==
    LET base == unwrap_or_default(pair.base)
        cache == IF pair.user.some
                 THEN [k \in DOMAIN base \cup DOMAIN pair.user.val |->
                          IF k \in DOMAIN base THEN base[k] ELSE pair.user.val[k]]
                 ELSE base
    IN  [pair EXCEPT !.cache = cache,
                     !.arc = [dom |-> pair.arc.dom, gen |-> pair.arc.gen + 1]]

\* rebuild that starts from the current cache instead of base
rebuild_onto_cache(pair) ==
    LET cache == IF pair.user.some
                 THEN [k \in DOMAIN pair.cache \cup DOMAIN pair.user.val |->
                          IF k \in DOMAIN pair.user.val THEN pair.user.val[k] ELSE pair.cache[k]]
                 ELSE pair.cache
    IN  [pair EXCEPT !.cache = cache,
                     !.arc = [dom |-> pair.arc.dom, gen |-> pair.arc.gen + 1]]

\* rebuild that writes through the Arc the pair already holds
rebuild_in_place(pair) ==
    LET base == unwrap_or_default(pair.base)
        cache == IF pair.user.some
                 THEN [k \in DOMAIN base \cup DOMAIN pair.user.val |->
                          IF k \in DOMAIN pair.user.val THEN pair.user.val[k] ELSE base[k]]
                 ELSE base
    IN  [pair EXCEPT !.cache = cache]

\* self.cache = Arc::new(cache): a new allocation
rebuild(pair) ==
    LET base == unwrap_or_default(pair.base)
        cache == IF pair.user.some
                 THEN [k \in DOMAIN base \cup DOMAIN pair.user.val |->
                          IF k \in DOMAIN pair.user.val THEN pair.user.val[k] ELSE base[k]]
                 ELSE base
    IN  [pair EXCEPT !.cache = cache,
                     !.arc = [dom |-> pair.arc.dom, gen |-> pair.arc.gen + 1]]

\* set_table that stores the table before it validates it
set_table_unchecked(pair, user) ==
    [pair |-> rebuild([pair EXCEPT !.user = Some(user)]),
     result |-> validate_table(pair.validator, user)]

\* set_table that inserts the new entries into the existing user table
set_table_merging(pair, user) ==
    LET r == validate_table(pair.validator, user)
        conf == unwrap_or_default(pair.user)
        conf2 == [k \in DOMAIN conf \cup DOMAIN user |->
                     IF k \in DOMAIN user THEN user[k] ELSE conf[k]]
    IN  IF ~r.ok THEN [pair |-> pair, result |-> r]
        ELSE [pair |-> rebuild([pair EXCEPT !.user = Some(conf2)]), result |-> Ok]

\* set_table that leaves out the keys whose value is null
set_table_drops_null(pair, user) ==
    LET r == validate_table(pair.validator, user)
        conf == [k \in {x \in DOMAIN user : ~is_null(user[x])} |-> user[k]]
    IN  IF ~r.ok THEN [pair |-> pair, result |-> r]
        ELSE [pair |-> rebuild([pair EXCEPT !.user = Some(conf)]), result |-> Ok]

\* the pair after the call, and the call's result
set_table(pair, user) ==
    LET r == validate_table(pair.validator, user)
    IN  IF ~r.ok THEN [pair |-> pair, result |-> r]
        ELSE [pair |-> rebuild([pair EXCEPT !.user = Some(user)]), result |-> Ok]

\* update_table that stores a null instead of removing the key
update_table_keeps_null(pair, changes) ==
    LET r == validate_table(pair.validator, changes)
        conf == unwrap_or_default(pair.user)
        conf2 == [k \in DOMAIN conf \cup DOMAIN changes |->
                     IF k \in DOMAIN changes THEN changes[k] ELSE conf[k]]
    IN  IF ~r.ok THEN [pair |-> pair, result |-> r]
        ELSE [pair |-> rebuild([pair EXCEPT !.user = Some(conf2)]), result |-> Ok]

update_table(pair, changes) ==
    LET r == validate_table(pair.validator, changes)
        conf == unwrap_or_default(pair.user)
        removed == {k \in DOMAIN changes : is_null(changes[k])}
        inserted == DOMAIN changes \ removed
        conf2 == [k \in (DOMAIN conf \ removed) \cup inserted |->
                     IF k \in inserted THEN changes[k] ELSE conf[k]]
    IN  IF ~r.ok THEN [pair |-> pair, result |-> r]
        ELSE [pair |-> rebuild([pair EXCEPT !.user = Some(conf2)]), result |-> Ok]

(***************************************************************************)
(* HashMap helpers                                                         *)
(***************************************************************************)
insert(map, k, v) == [x \in DOMAIN map \cup {k} |-> IF x = k THEN v ELSE map[x]]
remove(map, k) == [x \in DOMAIN map \ {k} |-> map[x]]

(***************************************************************************)
(* TableStack and Config<BufferItems>                                      *)
(***************************************************************************)
\* collate in which a later table overwrites an earlier one
RECURSIVE collate_last_wins(_, _, _)
collate_last_wins(stack, i, out) ==
    IF i > Len(stack) THEN out
    ELSE collate_last_wins(stack, i + 1,
            [k \in DOMAIN out \cup DOMAIN stack[i] |->
                IF k \in DOMAIN stack[i] THEN stack[i][k] ELSE out[k]])

RECURSIVE collate_from(_, _, _)
collate_from(stack, i, out) ==
    IF i > Len(stack) THEN out
    ELSE collate_from(stack, i + 1,
            [k \in DOMAIN out \cup DOMAIN stack[i] |->
                IF k \in DOMAIN out THEN out[k] ELSE stack[i][k]])

collate(stack) == collate_from(stack, 1, EmptyTable)

\* TableStack::get: the first occurrence of key, walking from the front
RECURSIVE get_from(_, _, _)
get_from(stack, i, key) ==
    IF i > Len(stack) THEN NoValue
    ELSE IF key \in DOMAIN stack[i] THEN Some(stack[i][key])
    ELSE get_from(stack, i + 1, key)

get(stack, key) == get_from(stack, 1, key)

\* diff that compares only the keys other holds
diff_of_shared_keys(this, other) ==
    LET c == collate(this)
        out == {k \in DOMAIN c : get(other, k).some /\ get(other, k) # Some(c[k])}
    IN  IF out = {} THEN None ELSE Some([k \in out |-> c[k]])

\* TableStack::diff: out stays None until the first key that differs
diff(this, other) ==
    LET c == collate(this)
        out == {k \in DOMAIN c : get(other, k) # Some(c[k])}
    IN  IF out = {} THEN None ELSE Some([k \in out |-> c[k]])

\* from_value that asks for the fields only, whatever their types
deserializes_untyped(table) == GENERAL_KEYS \subseteq DOMAIN table

\* serde_json::from_value::<BufferItems>: every field present with its type
deserializes(table) ==
    /\ GENERAL_KEYS \subseteq DOMAIN table
    /\ table["line_ending"].t = "str"
    /\ table["tab_size"].t = "num" /\ table["tab_size"].n >= 0
    /\ table["translate_tabs_to_spaces"].t = "bool"
    /\ table["font_face"].t = "str"
    /\ table["font_size"].t = "num"

BufferItems(table) == [k \in GENERAL_KEYS |-> table[k]]

\* Config { source, items }, or the panic of the unwrap
into_config(stack) ==
    IF deserializes(collate(stack))
    THEN [taken |-> TRUE, panicked |-> FALSE, source |-> stack, arcs |-> <<>>,
          items |-> BufferItems(collate(stack))]
    ELSE [taken |-> TRUE, panicked |-> TRUE, source |-> <<>>, arcs |-> <<>>,
          items |-> EmptyTable]

NoSnap == [taken |-> FALSE, panicked |-> FALSE, source |-> <<>>, arcs |-> <<>>,
           items |-> EmptyTable]

(***************************************************************************)
(* ConfigManager                                                           *)
(***************************************************************************)
\* get_or_insert_config that makes a new pair at every reference
get_or_insert_config_always_fresh(cfgs, domain) ==
    [d \in DOMAIN cfgs \cup {domain} |-> IF d = domain THEN for_domain(domain) ELSE cfgs[d]]

get_or_insert_config(cfgs, domain) ==
    IF domain \notin DOMAIN cfgs THEN insert(cfgs, domain, for_domain(domain)) ELSE cfgs

\* the domains pushed by get_buffer_config, most general first
pushed(syntax, view_id) ==
    <<General>>
      \o (IF syntax.some THEN <<Syntax(syntax.val)>> ELSE <<>>)
      \o (IF view_id.some THEN <<SysOverride(view_id.val)>> ELSE <<>>)
      \o (IF view_id.some THEN <<UserOverride(view_id.val)>> ELSE <<>>)

\* flat_map(Option::iter).map(|c| c.cache.clone())
RECURSIVE caches_of(_, _)
caches_of(cfgs, doms) ==
    IF doms = <<>> THEN <<>>
    ELSE (IF Head(doms) \in DOMAIN cfgs THEN <<cfgs[Head(doms)].cache>> ELSE <<>>)
            \o caches_of(cfgs, Tail(doms))

\* the chain left in the order the domains were pushed
rev_missing(s) == s

rev(s) == [i \in 1..Len(s) |-> s[Len(s) + 1 - i]]

table_stack(cfgs, syntax, view_id) == rev(caches_of(cfgs, pushed(syntax, view_id)))

\* the Arcs cloned into the TableStack, in the order of table_stack
RECURSIVE arcs_of(_, _)
arcs_of(cfgs, doms) ==
    IF doms = <<>> THEN <<>>
    ELSE (IF Head(doms) \in DOMAIN cfgs THEN <<cfgs[Head(doms)].arc>> ELSE <<>>)
            \o arcs_of(cfgs, Tail(doms))

arc_stack(cfgs, syntax, view_id) == rev(arcs_of(cfgs, pushed(syntax, view_id)))

\* source holds the tables as they were when the Config was made, arcs the
\* Arcs it shares with the pairs
buffer_config(cfgs, syntax, view_id) ==
    LET cfg == into_config(table_stack(cfgs, syntax, view_id))
    IN  IF cfg.panicked THEN cfg
        ELSE [cfg EXCEPT !.arcs = arc_stack(cfgs, syntax, view_id)]

\* Path::join: an absolute path replaces the base
join(base, p) == IF p # <<>> /\ p[1] = "/" THEN p ELSE base \o p

\* plugin_search_path that appends the extras dir only under a config dir
plugin_search_path_extras_under_dir(m) ==
    IF \/ General \notin DOMAIN m.configs
       \/ "plugin_search_path" \notin DOMAIN m.configs[General].cache
       \/ m.configs[General].cache["plugin_search_path"].t # "arr"
    THEN [panicked |-> TRUE, paths |-> <<>>]
    ELSE LET val == m.configs[General].cache["plugin_search_path"].l
             search_path == [i \in 1..Len(val) |-> join(m.config_dir.val, val[i])]
         IN  [panicked |-> FALSE,
              paths |-> IF m.config_dir.some
                        THEN (IF m.extras_dir.some
                              THEN Append(search_path, m.extras_dir.val)
                              ELSE search_path)
                        ELSE val]

\* the unwrap()s panic when General has no pair, when the key is missing and
\* when the value is not a list of paths
plugin_search_path(m) ==
    IF \/ General \notin DOMAIN m.configs
       \/ "plugin_search_path" \notin DOMAIN m.configs[General].cache
       \/ m.configs[General].cache["plugin_search_path"].t # "arr"
    THEN [panicked |-> TRUE, paths |-> <<>>]
    ELSE LET val == m.configs[General].cache["plugin_search_path"].l
             search_path == IF m.config_dir.some
                            THEN [i \in 1..Len(val) |-> join(m.config_dir.val, val[i])]
                            ELSE val
         IN  [panicked |-> FALSE,
              paths |-> IF m.extras_dir.some
                        THEN Append(search_path, m.extras_dir.val)
                        ELSE search_path]

(***************************************************************************)
(* Paths.  A path is the sequence of its components; a file name is split  *)
(* at its dots by Segments.                                                *)
(***************************************************************************)
Segments(name) ==
    CASE name = "preferences.xiconfig" -> <<"preferences", "xiconfig">>
      [] name = "rust.xiconfig" -> <<"rust", "xiconfig">>
      [] name = "fake?.xiconfig" -> <<"fake?", "xiconfig">>
      [] name = "preferences.toml" -> <<"preferences", "toml">>
      [] name = "rust.tar.xiconfig" -> <<"rust", "tar", "xiconfig">>
      [] name = ".xiconfig" -> <<"", "xiconfig">>
      [] OTHER -> <<name>>

Front(seq) == SubSeq(seq, 1, Len(seq) - 1)

\* Path::file_name: none for the empty path and for the root
file_name(path) ==
    IF path = <<>> \/ path = <<"/">> THEN NoName ELSE Some(path[Len(path)])

\* Path::parent
parent(path) ==
    IF path = <<>> \/ path = <<"/">> THEN NoPath ELSE Some(Front(path))

\* Path::extension: the part after the last dot of the file name, none when
\* there is no dot or the only dot starts the name
extension(path) ==
    IF ~file_name(path).some THEN NoName
    ELSE LET segs == Segments(file_name(path).val)
         IN  IF Len(segs) = 1 \/ (Len(segs) = 2 /\ segs[1] = "")
             THEN NoName
             ELSE Some(segs[Len(segs)])

\* Path::file_stem: the file name without its extension, as its segments
file_stem(path) ==
    IF ~file_name(path).some THEN [some |-> FALSE, val |-> <<>>]
    ELSE LET segs == Segments(file_name(path).val)
         IN  IF Len(segs) = 1 \/ (Len(segs) = 2 /\ segs[1] = "")
             THEN Some(segs)
             ELSE Some(Front(segs))

\* SyntaxDefinition::try_from_name on the names the tests use
try_from_name(stem) ==
    CASE stem = <<"rust">> -> Some("Rust")
      [] stem = <<"python">> -> Some("Python")
      [] OTHER -> NoName

UnknownDomain(stem) == [ok |-> FALSE, error |-> "UnknownDomain", domain |-> General]

\* ConfigDomain::try_from_path; the unwrap panics on a path without file name
try_from_path(path) ==
    LET stem == file_stem(path)
    IN  IF ~stem.some THEN [panicked |-> TRUE, result |-> UnknownDomain(<<>>)]
        ELSE IF stem.val = <<"preferences">>
        THEN [panicked |-> FALSE, result |-> [ok |-> TRUE, error |-> "", domain |-> General]]
        ELSE IF try_from_name(stem.val).some
        THEN [panicked |-> FALSE,
              result |-> [ok |-> TRUE, error |-> "",
                          domain |-> Syntax(try_from_name(stem.val).val)]]
        ELSE [panicked |-> FALSE, result |-> UnknownDomain(stem.val)]

\* should_load_file that accepts a file anywhere below the config dir
should_load_file_below(m, path) ==
    IF extension(path) # Some("xiconfig") THEN [panicked |-> FALSE, flag |-> FALSE]
    ELSE IF try_from_path(path).panicked THEN [panicked |-> TRUE, flag |-> FALSE]
    ELSE IF ~try_from_path(path).result.ok THEN [panicked |-> FALSE, flag |-> FALSE]
    ELSE [panicked |-> FALSE,
          flag |-> IF m.config_dir.some
                   THEN /\ Len(m.config_dir.val) < Len(path)
                        /\ SubSeq(path, 1, Len(m.config_dir.val)) = m.config_dir.val
                   ELSE FALSE]

\* ConfigManager::should_load_file; && evaluates its right side only when
\* the left side holds
should_load_file(m, path) ==
    IF extension(path) # Some("xiconfig") THEN [panicked |-> FALSE, flag |-> FALSE]
    ELSE IF try_from_path(path).panicked THEN [panicked |-> TRUE, flag |-> FALSE]
    ELSE IF ~try_from_path(path).result.ok THEN [panicked |-> FALSE, flag |-> FALSE]
    ELSE [panicked |-> FALSE,
          flag |-> IF m.config_dir.some
                   THEN Some(m.config_dir.val) = parent(path)
                   ELSE FALSE]

(***************************************************************************)
(* The tables behind the Arcs                                              *)
(***************************************************************************)
Range(seq) == {seq[i] : i \in 1..Len(seq)}

\* the heap once the pairs are cfgs and the caller holds sn and hl.old: what
\* a pair's Arc points to is the pair's cache, an Arc only a Config holds
\* keeps its table, an Arc nobody holds is dropped
store(h, cfgs, sn, hl) ==
    LET pair_arcs == {cfgs[d].arc : d \in DOMAIN cfgs}
        live == pair_arcs \cup Range(sn.arcs) \cup Range(hl.old.arcs)
    IN  [a \in live |-> IF a \in pair_arcs THEN cfgs[a.dom].cache ELSE h[a]]

\* the TableStack of a Config, read through its Arcs
stack_of(h, cfg) == [i \in 1..Len(cfg.arcs) |-> h[cfg.arcs[i]]]

\* Config::to_table
to_table(h, cfg) == collate(stack_of(h, cfg))

\* changes_from that diffs other against self
changes_from_reversed(h, self, other) ==
    IF other.some
    THEN diff(stack_of(h, other.val), stack_of(h, self))
    ELSE Some(collate(stack_of(h, self)))

\* Config::changes_from
changes_from(h, self, other) ==
    IF other.some
    THEN diff(stack_of(h, self), stack_of(h, other.val))
    ELSE Some(collate(stack_of(h, self)))

(***************************************************************************)
(* The calls' arguments                                                    *)
(***************************************************************************)
InputKeys == {"tab_size", "plugin_search_path", "font_frace"}

InputValues(k) ==
    CASE k = "tab_size" -> {Num(42), Null}
      [] k = "plugin_search_path" -> {Arr(<< <<"/", "some", "path">> >>)}
      [] k = "font_frace" -> {Str("InconsolableMo")}

AllInputValues == UNION {InputValues(k) : k \in InputKeys}

TablesOver(keys) ==
    {tb \in UNION {[S -> AllInputValues] : S \in SUBSET keys} :
        \A k \in DOMAIN tb : tb[k] \in InputValues(k)}

InputTables == TablesOver(InputKeys)

TargetDomains ==
    {General, Syntax("Yaml"), SysOverride("view-id-1"), UserOverride("view-id-1")}

SourcePaths ==
    { <<"/", "cfg", "preferences.xiconfig">>, <<"/", "cfg", "yaml.xiconfig">> }

OptPaths == {NoPath} \cup {[some |-> TRUE, val |-> p] : p \in SourcePaths}
OptSyntaxes == {NoName} \cup {[some |-> TRUE, val |-> s] : s \in Syntaxes}
OptViews == {NoName} \cup {[some |-> TRUE, val |-> v] : v \in Views}

ConfigDirs == { <<"/", "cfg">> }
ExtrasDirs == { <<"/", "extras">> }

\* the narrower arguments of the longer behaviours of SpecDeep
DeepTables == TablesOver({"tab_size", "plugin_search_path"})
DeepDomains == {General, UserOverride("view-id-1")}
DeepSyntaxes == {NoName, [some |-> TRUE, val |-> "Yaml"]}

\* the tables and stacks the TableStack functions are applied to in SpecStack
StackTables ==
    {tb \in UNION {[S -> {Num(42), Null, Bool(TRUE)}] :
                      S \in SUBSET {"tab_size", "translate_tabs_to_spaces"}} :
        /\ "tab_size" \in DOMAIN tb => tb["tab_size"] \in {Num(42), Null}
        /\ "translate_tabs_to_spaces" \in DOMAIN tb
              => tb["translate_tabs_to_spaces"] = Bool(TRUE)}

Stacks == UNION {[1..n -> StackTables] : n \in 0..MaxStack}

StackKeys == {"tab_size", "translate_tabs_to_spaces", "font_size"}

\* the arguments of the calls of SpecSnap
SnapTables == {[k \in {"tab_size"} |-> v] : v \in {Num(42), Str("four"), Null}}

\* the arguments of the calls of SpecPaths
PathTables ==
    {[k \in {"plugin_search_path"} |-> v] :
        v \in {Arr(<< <<"/", "extras">>, <<"themes">> >>), Arr(<<>>), Null}}

PathDirs == { <<"/", "cfg">>, <<"/", "cfg", "subdir">> }

FileNames == {"preferences.xiconfig", "rust.xiconfig", "fake?.xiconfig",
              "preferences.toml", "rust.tar.xiconfig", ".xiconfig", "rust"}

FilePaths ==
    {Append(d, n) : d \in PathDirs \cup { <<"/">> }, n \in FileNames} \cup { <<"/">> }

(***************************************************************************)
(* The record of the last call and of the manager before it                *)
(***************************************************************************)
Manager == [configs |-> configs, sources |-> sources,
            config_dir |-> config_dir, extras_dir |-> extras_dir]

Call(op, domain, table, path, result) ==
    [op |-> op, domain |-> domain, table |-> table, path |-> path,
     result |-> result, syntax |-> NoName, view_id |-> NoName]

Query(syntax, view_id) ==
    [op |-> "get_buffer_config", domain |-> General, table |-> EmptyTable,
     path |-> NoPath, result |-> Ok, syntax |-> syntax, view_id |-> view_id]

\* what the caller keeps of its queries: the arguments of the Config in snap,
\* and the Config it held before with its arguments
NoHeld == [old |-> NoSnap, old_syntax |-> NoName, old_view |-> NoName,
           syntax |-> NoName, view_id |-> NoName]

\* the result of the last call of a function that returns a value
NoRet == [fn |-> "none", this |-> <<>>, other |-> <<>>, key |-> "", path |-> <<>>,
          table |-> None, value |-> NoValue,
          paths |-> <<>>, flag |-> FALSE, panicked |-> FALSE]

(***************************************************************************)
(* impl Default for ConfigManager                                          *)
(***************************************************************************)
\* a manager that starts with a pair for every syntax
Default_every_syntax ==
    /\ configs = [d \in {General} \cup {Syntax(x) : x \in Syntaxes} |-> for_domain(d)]
    /\ sources = [p \in {} |-> General]
    /\ config_dir = NoPath
    /\ extras_dir = NoPath
    /\ heap = [a \in {for_domain(d).arc : d \in {General} \cup {Syntax(x) : x \in Syntaxes}} |->
                  for_domain(a.dom).cache]
    /\ snap = NoSnap
    /\ held = NoHeld
    /\ last = Call("default", General, EmptyTable, NoPath, Ok)
    /\ pre = [configs |-> [d \in {} |-> for_domain(d)], sources |-> [p \in {} |-> General],
              config_dir |-> NoPath, extras_dir |-> NoPath]

Default ==
    /\ configs = [d \in {General, Syntax("Yaml"), Syntax("Makefile")} |-> for_domain(d)]
    /\ sources = [p \in {} |-> General]
    /\ config_dir = NoPath
    /\ extras_dir = NoPath
    /\ heap = [a \in {for_domain(d).arc : d \in {General, Syntax("Yaml"), Syntax("Makefile")}} |->
                  for_domain(a.dom).cache]
    /\ snap = NoSnap
    /\ held = NoHeld
    /\ last = Call("default", General, EmptyTable, NoPath, Ok)
    /\ pre = [configs |-> [d \in {} |-> for_domain(d)], sources |-> [p \in {} |-> General],
              config_dir |-> NoPath, extras_dir |-> NoPath]

Init == Default /\ ret = NoRet /\ budget = MaxOps

InitDeep == Default /\ ret = NoRet /\ budget = MaxDeepOps

InitPaths == Default /\ ret = NoRet /\ budget = MaxPathOps

InitSnap == Default /\ ret = NoRet /\ budget = MaxSnapOps

\* two TableStacks, no call on the manager
InitStack ==
    /\ Default
    /\ ret \in {[NoRet EXCEPT !.this = a, !.other = b] : a \in Stacks, b \in Stacks}
    /\ budget = 0

Step ==
    /\ budget > 0
    /\ budget' = budget - 1
    /\ pre' = Manager

\* set_user_config that records the path whatever the result
set_user_config_binds_always(domain, new_config, path) ==
    LET cfgs == get_or_insert_config(configs, domain)
        r == set_table(cfgs[domain], new_config)
    IN  /\ Step
        /\ configs' = [cfgs EXCEPT ![domain] = r.pair]
        /\ sources' = IF path.some THEN insert(sources, path.val, domain) ELSE sources
        /\ heap' = store(heap, configs', snap, held)
        /\ last' = Call("set_user_config", domain, new_config, path, r.result)
        /\ UNCHANGED <<config_dir, extras_dir, snap, held, ret>>

\* set_user_config that unloads the domain its path was bound to before
set_user_config_unloads_previous(domain, new_config, path) ==
    LET cfgs == get_or_insert_config(configs, domain)
        r == set_table(cfgs[domain], new_config)
        rebinds == /\ r.result.ok
                   /\ path.some
                   /\ path.val \in DOMAIN sources
                   /\ sources[path.val] # domain
        set == [cfgs EXCEPT ![domain] = r.pair]
    IN  /\ Step
        /\ configs' = IF rebinds
                      THEN [set EXCEPT ![sources[path.val]] =
                                set_table(set[sources[path.val]], EmptyTable).pair]
                      ELSE set
        /\ sources' = IF r.result.ok /\ path.some
                      THEN insert(sources, path.val, domain)
                      ELSE sources
        /\ heap' = store(heap, configs', snap, held)
        /\ last' = Call("set_user_config", domain, new_config, path, r.result)
        /\ UNCHANGED <<config_dir, extras_dir, snap, held, ret>>

set_user_config(domain, new_config, path) ==
    LET cfgs == get_or_insert_config(configs, domain)
        r == set_table(cfgs[domain], new_config)
    IN  /\ Step
        /\ configs' = [cfgs EXCEPT ![domain] = r.pair]
        /\ sources' = IF r.result.ok /\ path.some
                      THEN insert(sources, path.val, domain)
                      ELSE sources
        /\ heap' = store(heap, configs', snap, held)
        /\ last' = Call("set_user_config", domain, new_config, path, r.result)
        /\ UNCHANGED <<config_dir, extras_dir, snap, held, ret>>

update_user_config(domain, changes) ==
    LET cfgs == get_or_insert_config(configs, domain)
        r == update_table(cfgs[domain], changes)
    IN  /\ Step
        /\ configs' = [cfgs EXCEPT ![domain] = r.pair]
        /\ heap' = store(heap, configs', snap, held)
        /\ last' = Call("update_user_config", domain, changes, NoPath, r.result)
        /\ UNCHANGED <<sources, config_dir, extras_dir, snap, held, ret>>

\* remove_source that forgets the binding and leaves the domain as it is
remove_source_unbind_only(source) ==
    LET found == source \in DOMAIN sources
        domain == IF found THEN sources[source] ELSE General
    IN  /\ Step
        /\ sources' = IF found THEN remove(sources, source) ELSE sources
        /\ last' = Call("remove_source", domain, EmptyTable, Some(source), Ok)
        /\ UNCHANGED <<configs, config_dir, extras_dir, heap, snap, held, ret>>

\* remove_source that unloads the user table of every domain
remove_source_resets_all(source) ==
    LET found == source \in DOMAIN sources
        domain == IF found THEN sources[source] ELSE General
    IN  /\ Step
        /\ sources' = IF found THEN remove(sources, source) ELSE sources
        /\ configs' = IF found
                      THEN [d \in DOMAIN configs |-> set_table(configs[d], EmptyTable).pair]
                      ELSE configs
        /\ heap' = IF found THEN store(heap, configs', snap, held)
                   ELSE heap
        /\ last' = Call("remove_source", domain, EmptyTable, Some(source), Ok)
        /\ UNCHANGED <<config_dir, extras_dir, snap, held, ret>>

\* remove_source that drops every binding to the domain it resets
remove_source_unbinds_domain(source) ==
    LET found == source \in DOMAIN sources
        domain == IF found THEN sources[source] ELSE General
        cfgs == get_or_insert_config(configs, domain)
        r == set_table(cfgs[domain], EmptyTable)
    IN  /\ Step
        /\ sources' = IF found
                      THEN [p \in {q \in DOMAIN sources : sources[q] # domain} |-> sources[p]]
                      ELSE sources
        /\ configs' = IF found THEN [cfgs EXCEPT ![domain] = r.pair] ELSE configs
        /\ heap' = IF found THEN store(heap, configs', snap, held)
                   ELSE heap
        /\ last' = Call("remove_source", domain, EmptyTable, Some(source),
                        IF found THEN r.result ELSE Ok)
        /\ UNCHANGED <<config_dir, extras_dir, snap, held, ret>>

\* sources.remove(source), then set_user_config(domain, Table::new(), None)
remove_source(source) ==
    LET found == source \in DOMAIN sources
        domain == IF found THEN sources[source] ELSE General
        cfgs == get_or_insert_config(configs, domain)
        r == set_table(cfgs[domain], EmptyTable)
    IN  /\ Step
        /\ sources' = IF found THEN remove(sources, source) ELSE sources
        /\ configs' = IF found THEN [cfgs EXCEPT ![domain] = r.pair] ELSE configs
        /\ heap' = IF found THEN store(heap, configs', snap, held)
                   ELSE heap
        /\ last' = Call("remove_source", domain, EmptyTable, Some(source),
                        IF found THEN r.result ELSE Ok)
        /\ UNCHANGED <<config_dir, extras_dir, snap, held, ret>>

\* get_buffer_config that creates the pairs it asks for
get_buffer_config_inserting(syntax, view_id) ==
    LET cfgs == [d \in DOMAIN configs \cup Range(pushed(syntax, view_id)) |->
                    IF d \in DOMAIN configs THEN configs[d] ELSE for_domain(d)]
        cfg == buffer_config(cfgs, syntax, view_id)
        hl == [old |-> snap, old_syntax |-> held.syntax, old_view |-> held.view_id,
               syntax |-> syntax, view_id |-> view_id]
    IN  /\ Step
        /\ configs' = cfgs
        /\ snap' = cfg
        /\ held' = hl
        /\ heap' = store(heap, cfgs, cfg, hl)
        /\ last' = Query(syntax, view_id)
        /\ UNCHANGED <<sources, config_dir, extras_dir, ret>>

\* the caller keeps the Config it had (held.old) beside the new one (snap)
get_buffer_config(syntax, view_id) ==
    LET cfg == buffer_config(configs, syntax, view_id)
        hl == [old |-> snap, old_syntax |-> held.syntax, old_view |-> held.view_id,
               syntax |-> syntax, view_id |-> view_id]
    IN  /\ Step
        /\ snap' = cfg
        /\ held' = hl
        /\ heap' = store(heap, configs, snap', held')
        /\ last' = Query(syntax, view_id)
        /\ UNCHANGED <<configs, sources, config_dir, extras_dir, ret>>

set_config_dir(path) ==
    /\ Step
    /\ config_dir' = [some |-> TRUE, val |-> path]
    /\ last' = Call("set_config_dir", General, EmptyTable, Some(path), Ok)
    /\ UNCHANGED <<configs, sources, extras_dir, heap, snap, held, ret>>

set_extras_dir(path) ==
    /\ Step
    /\ extras_dir' = [some |-> TRUE, val |-> path]
    /\ last' = Call("set_extras_dir", General, EmptyTable, Some(path), Ok)
    /\ UNCHANGED <<configs, sources, config_dir, heap, snap, held, ret>>

(***************************************************************************)
(* The calls that take &self and return a value; a behaviour of SpecPaths  *)
(* ends with one of them                                                   *)
(***************************************************************************)
Ask ==
    /\ budget > 0
    /\ budget' = 0
    /\ pre' = Manager
    /\ UNCHANGED <<configs, sources, config_dir, extras_dir, heap, snap, held>>

call_plugin_search_path ==
    /\ Ask
    /\ ret' = [NoRet EXCEPT !.fn = "plugin_search_path",
                            !.paths = plugin_search_path(Manager).paths,
                            !.panicked = plugin_search_path(Manager).panicked]
    /\ last' = Call("plugin_search_path", General, EmptyTable, NoPath, Ok)

call_should_load_file(path) ==
    /\ Ask
    /\ ret' = [NoRet EXCEPT !.fn = "should_load_file", !.path = path,
                            !.flag = should_load_file(Manager, path).flag,
                            !.panicked = should_load_file(Manager, path).panicked]
    /\ last' = Call("should_load_file", General, EmptyTable, Some(path), Ok)

\* new.changes_from(Some(old)) or new.changes_from(None) on the Configs the
\* caller holds: new is snap, old is held.old
call_changes_from(with_other) ==
    /\ snap.taken /\ ~snap.panicked
    /\ with_other => (held.old.taken /\ ~held.old.panicked)
    /\ Ask
    /\ ret' = [NoRet EXCEPT !.fn = "changes_from", !.flag = with_other,
                            !.table = changes_from(heap, snap,
                                         IF with_other THEN Some(held.old)
                                         ELSE [some |-> FALSE, val |-> NoSnap])]
    /\ last' = Call("changes_from", General, EmptyTable, NoPath, Ok)

(***************************************************************************)
(* The functions of TableStack applied to the stacks of ret                *)
(***************************************************************************)
Unchanged == UNCHANGED <<configs, sources, config_dir, extras_dir, heap, snap, held,
                         last, pre, budget>>

stack_diff ==
    /\ ret.fn = "none"
    /\ ret' = [ret EXCEPT !.fn = "diff", !.table = diff(ret.this, ret.other)]
    /\ Unchanged

stack_collate ==
    /\ ret.fn = "none"
    /\ ret' = [ret EXCEPT !.fn = "collate", !.table = Some(collate(ret.this))]
    /\ Unchanged

stack_get(key) ==
    /\ ret.fn = "none"
    /\ ret' = [ret EXCEPT !.fn = "get", !.key = key, !.value = get(ret.this, key)]
    /\ Unchanged

Next ==
    \/ \E d \in TargetDomains, tb \in InputTables, p \in OptPaths : set_user_config(d, tb, p)
    \/ \E d \in TargetDomains, tb \in InputTables : update_user_config(d, tb)
    \/ \E p \in SourcePaths : remove_source(p)
    \/ \E s \in OptSyntaxes, v \in OptViews : get_buffer_config(s, v)
    \/ \E p \in ConfigDirs : set_config_dir(p)
    \/ \E p \in ExtrasDirs : set_extras_dir(p)

Spec == Init /\ [][Next]_vars

NextDeep ==
    \/ \E d \in DeepDomains, tb \in DeepTables, p \in OptPaths : set_user_config(d, tb, p)
    \/ \E d \in DeepDomains, tb \in DeepTables : update_user_config(d, tb)
    \/ \E p \in SourcePaths : remove_source(p)
    \/ \E s \in DeepSyntaxes, v \in OptViews : get_buffer_config(s, v)
    \/ \E p \in ConfigDirs : set_config_dir(p)
    \/ \E p \in ExtrasDirs : set_extras_dir(p)

SpecDeep == InitDeep /\ [][NextDeep]_vars

NextPaths ==
    \/ \E tb \in PathTables : set_user_config(General, tb, NoPath)
    \/ \E tb \in PathTables : update_user_config(General, tb)
    \/ \E p \in PathDirs : set_config_dir(p)
    \/ \E p \in ExtrasDirs : set_extras_dir(p)
    \/ call_plugin_search_path
    \/ \E p \in FilePaths : call_should_load_file(p)

SpecPaths == InitPaths /\ [][NextPaths]_vars

NextSnap ==
    \/ \E d \in DeepDomains, tb \in SnapTables : set_user_config(d, tb, NoPath)
    \/ \E d \in DeepDomains, tb \in SnapTables : update_user_config(d, tb)
    \/ \E s \in DeepSyntaxes, v \in OptViews : get_buffer_config(s, v)
    \/ \E b \in BOOLEAN : call_changes_from(b)

SpecSnap == InitSnap /\ [][NextSnap]_vars

NextStack ==
    \/ stack_diff
    \/ stack_collate
    \/ \E k \in StackKeys : stack_get(k)

SpecStack == InitStack /\ [][NextStack]_vars

(***************************************************************************)
(* Vocabulary of the properties                                            *)
(***************************************************************************)
AllKeys == GENERAL_KEYS \cup TOP_LEVEL_KEYS \cup InputKeys

Mutation == last.op \in {"set_user_config", "update_user_config"}

\* the user table of a domain, empty when the domain has no pair or no table
user_of(cfgs, d) == IF d \in DOMAIN cfgs THEN unwrap_or_default(cfgs[d].user) ELSE EmptyTable

\* the defaults of a domain as a table
base_of(d) == unwrap_or_default(defaults_for_domain(d))

\* the keys a domain kind accepts
Legal(d) ==
    IF d = General
    THEN {"tab_size", "line_ending", "translate_tabs_to_spaces", "font_face",
          "font_size", "plugin_search_path"}
    ELSE {"tab_size", "line_ending", "translate_tabs_to_spaces", "font_face", "font_size"}

\* the domains a resolve consults, most specific first
Chain(s, v) ==
    (IF v.some THEN <<UserOverride(v.val), SysOverride(v.val)>> ELSE <<>>)
      \o (IF s.some THEN <<Syntax(s.val)>> ELSE <<>>)
      \o <<General>>

Holders(cfgs, s, v, k) ==
    {i \in 1..Len(Chain(s, v)) :
        Chain(s, v)[i] \in DOMAIN cfgs /\ k \in DOMAIN cfgs[Chain(s, v)[i]].cache}

FirstHolder(cfgs, s, v, k) ==
    Chain(s, v)[CHOOSE i \in Holders(cfgs, s, v, k) : \A j \in Holders(cfgs, s, v, k) : i <= j]

\* k resolves in table c as the chain over cfgs says
ResolvesIn(c, cfgs, s, v, k) ==
    /\ k \in DOMAIN c <=> Holders(cfgs, s, v, k) # {}
    /\ k \in DOMAIN c => c[k] = cfgs[FirstHolder(cfgs, s, v, k)].cache[k]

\* the tables of a stack that hold key k, and the value of k in the first
Having(stack, k) == {i \in 1..Len(stack) : k \in DOMAIN stack[i]}
FirstValue(stack, k) ==
    stack[CHOOSE i \in Having(stack, k) : \A j \in Having(stack, k) : i <= j][k]
KeysOf(stack) == UNION {DOMAIN stack[i] : i \in 1..Len(stack)}

\* the JSON type BufferItems asks of a field
SchemaType(k) ==
    CASE k = "line_ending" -> "str"
      [] k = "tab_size" -> "num"
      [] k = "translate_tabs_to_spaces" -> "bool"
      [] k = "font_face" -> "str"
      [] k = "font_size" -> "num"

\* the fields of table that are missing or hold a value of another type
IllTyped(table) ==
    {k \in GENERAL_KEYS : k \notin DOMAIN table \/ table[k].t # SchemaType(k)}

\* the pairs of cfgs with the pair of d as it is created, without user table
WithoutUser(cfgs, d) == [x \in DOMAIN cfgs |-> IF x = d THEN for_domain(d) ELSE cfgs[x]]

(***************************************************************************)
(* C1: in every reachable state every ConfigPair's cache is the merge of   *)
(* its base and user tables: the cache's keys are the keys of base and of  *)
(* user, a key of user has user's value, a key of base alone has base's    *)
(* value; a freshly created pair has an empty user table and cache = base. *)
(***************************************************************************)
C1_CacheIsMerge ==
    \A d \in DOMAIN configs :
        LET p == configs[d]
            b == unwrap_or_default(p.base)
            u == unwrap_or_default(p.user)
        IN  /\ DOMAIN p.cache = DOMAIN b \cup DOMAIN u
            /\ \A k \in DOMAIN u : p.cache[k] = u[k]
            /\ \A k \in DOMAIN b \ DOMAIN u : p.cache[k] = b[k]
            /\ (d \notin DOMAIN pre.configs /\ (last.op = "default" \/ ~last.result.ok))
                  => (DOMAIN u = {} /\ p.cache = b /\ b = base_of(d))

\* a pair whose user table overrides one key of base and leaves another to base
C1_Witness ==
    /\ Mutation
    /\ \E d \in DOMAIN configs :
          LET b == unwrap_or_default(configs[d].base)
              u == unwrap_or_default(configs[d].user)
          IN  /\ \E k \in DOMAIN u \cap DOMAIN b : u[k] # b[k]
              /\ DOMAIN b \ DOMAIN u # {}

C3_RejectedTableNotApplied ==
    (Mutation /\ DOMAIN last.table \ Legal(last.domain) # {})
        => /\ ~last.result.ok
           /\ last.result.key \in DOMAIN last.table \ Legal(last.domain)
           /\ last.domain \in DOMAIN configs
           /\ IF last.domain \in DOMAIN pre.configs
              THEN /\ configs[last.domain].user = pre.configs[last.domain].user
                   /\ configs[last.domain].cache = pre.configs[last.domain].cache
              ELSE /\ ~configs[last.domain].user.some
                   /\ configs[last.domain].cache = base_of(last.domain)

\* a rejected table with a legal key beside the illegal one, on a pair whose
\* user table was not empty
C3_Witness ==
    /\ Mutation
    /\ ~last.result.ok
    /\ DOMAIN last.table \cap Legal(last.domain) # {}
    /\ DOMAIN user_of(pre.configs, last.domain) # {}
    /\ \E k \in DOMAIN last.table \cap Legal(last.domain) :
          k \notin DOMAIN user_of(pre.configs, last.domain)
             \/ user_of(pre.configs, last.domain)[k] # last.table[k]

(***************************************************************************)
(* C4: a set_user_config or update_user_config call that fails validation  *)
(* changes nothing in the manager: the domains that have a pair, every     *)
(* pair, the sources, hence every precedence chain, are as before.         *)
(***************************************************************************)
C4_FailedCallChangesNothing ==
    (Mutation /\ ~last.result.ok)
        => /\ DOMAIN configs = DOMAIN pre.configs
           /\ configs = pre.configs
           /\ sources = pre.sources
           /\ \A s \in OptSyntaxes, v \in OptViews :
                 table_stack(configs, s, v) = table_stack(pre.configs, s, v)

(***************************************************************************)
(* C5: a successful update_user_config(domain, changes) yields a user      *)
(* table that lacks k if changes[k] is null, has changes[k] if changes[k]  *)
(* is not null, and has its previous entry if k is not in changes.         *)
(***************************************************************************)
C5_UpdateMergesPerKey ==
    (last.op = "update_user_config" /\ last.result.ok)
        => /\ last.domain \in DOMAIN configs
           /\ configs[last.domain].user.some
           /\ \A k \in AllKeys :
                 LET u == user_of(configs, last.domain)
                     u0 == user_of(pre.configs, last.domain)
                 IN  IF k \in DOMAIN last.table
                     THEN IF last.table[k] = Null
                          THEN k \notin DOMAIN u
                          ELSE k \in DOMAIN u /\ u[k] = last.table[k]
                     ELSE /\ k \in DOMAIN u <=> k \in DOMAIN u0
                          /\ k \in DOMAIN u => u[k] = u0[k]

\* an update that removes one key of the user table with a null and leaves
\* another key of the user table alone
C5_Witness ==
    /\ last.op = "update_user_config"
    /\ last.result.ok
    /\ \E k \in DOMAIN last.table :
          last.table[k] = Null /\ k \in DOMAIN user_of(pre.configs, last.domain)
    /\ \E k \in DOMAIN user_of(pre.configs, last.domain) : k \notin DOMAIN last.table

(***************************************************************************)
(* C6: after the user table overrides k and update_user_config(domain,     *)
(* {k: null}) succeeds, the cache holds base[k] if base contains k and no  *)
(* k otherwise; for General a resolve returns the default of k again and   *)
(* the other user-set keys keep their user values.                         *)
(***************************************************************************)
C6_NullUpdateRevertsToBase ==
    \A k \in AllKeys :
        ( /\ last.op = "update_user_config"
          /\ last.result.ok
          /\ DOMAIN last.table = {k}
          /\ last.table[k] = Null
          /\ k \in DOMAIN user_of(pre.configs, last.domain) )
        => LET c == configs[last.domain].cache
               b == base_of(last.domain)
               resolved == collate(table_stack(configs, NoName, NoName))
           IN  /\ k \in DOMAIN b => (k \in DOMAIN c /\ c[k] = b[k])
               /\ k \notin DOMAIN b => k \notin DOMAIN c
               /\ last.domain = General
                     => /\ resolved[k] = BASE[k]
                        /\ \A k2 \in DOMAIN user_of(pre.configs, General) \ {k} :
                              resolved[k2] = user_of(pre.configs, General)[k2]

\* General overrode tab_size and another key; the null update of tab_size
\* brings the default of tab_size back
C6_Witness ==
    /\ last.op = "update_user_config"
    /\ last.result.ok
    /\ last.domain = General
    /\ DOMAIN last.table = {"tab_size"}
    /\ last.table["tab_size"] = Null
    /\ "tab_size" \in DOMAIN user_of(pre.configs, General)
    /\ pre.configs[General].cache["tab_size"] # BASE["tab_size"]
    /\ DOMAIN user_of(pre.configs, General) \ {"tab_size"} # {}

(***************************************************************************)
(* C7: a successful set_user_config(domain, T, path) makes the user table  *)
(* exactly T, whatever it held before, and the cache merge(base, T).       *)
(***************************************************************************)
C7_SetReplacesUserTable ==
    (last.op = "set_user_config" /\ last.result.ok)
        => /\ last.domain \in DOMAIN configs
           /\ configs[last.domain].user.some
           /\ configs[last.domain].user.val = last.table
           /\ LET c == configs[last.domain].cache
                  b == base_of(last.domain)
              IN  /\ DOMAIN c = DOMAIN b \cup DOMAIN last.table
                  /\ \A k \in DOMAIN c :
                        c[k] = IF k \in DOMAIN last.table THEN last.table[k] ELSE b[k]

\* a successful set whose table lacks a key the user table held before
C7_Witness ==
    /\ last.op = "set_user_config"
    /\ last.result.ok
    /\ DOMAIN last.table # {}
    /\ DOMAIN user_of(pre.configs, last.domain) \ DOMAIN last.table # {}

(***************************************************************************)
(* C8: set_user_config and update_user_config succeed iff every key of the *)
(* table is legal for the kind of the target domain, whatever the values:  *)
(* General accepts the general keys and plugin_search_path, the other      *)
(* kinds only the general keys, and a rejection is an IllegalKey.          *)
(***************************************************************************)
C8_AcceptedIffKeysLegal ==
    Mutation
        => /\ last.result.ok <=> DOMAIN last.table \subseteq Legal(last.domain)
           /\ ~last.result.ok => last.result.key \in DOMAIN last.table
           /\ ("plugin_search_path" \in DOMAIN last.table /\ last.domain # General)
                 => ~last.result.ok
           /\ (DOMAIN last.table = {"plugin_search_path"} /\ last.domain = General)
                 => last.result.ok

\* plugin_search_path, accepted by General, rejected for another domain
C8_Witness ==
    /\ Mutation
    /\ last.domain # General
    /\ DOMAIN last.table = {"plugin_search_path"}
    /\ last.result = IllegalKey("plugin_search_path")
    /\ "plugin_search_path" \in DOMAIN user_of(pre.configs, General)

(***************************************************************************)
(* C9: remove_source(P) of a path bound to domain D leaves D with an empty *)
(* user table and cache = base(D), as set_user_config(D, {}) would,        *)
(* however D's user table was built; every resolve then yields what it     *)
(* yields with no user configuration for D; the reset never fails.         *)
(***************************************************************************)
C9_RemoveSourceResetsDomain ==
    (last.op = "remove_source" /\ last.path.val \in DOMAIN pre.sources)
        => LET D == pre.sources[last.path.val]
           IN  /\ last.result.ok
               /\ D \in DOMAIN configs
               /\ DOMAIN user_of(configs, D) = {}
               /\ configs[D].cache = base_of(D)
               /\ configs[D].user = Some(EmptyTable)
               /\ \A s \in OptSyntaxes, v \in OptViews :
                     collate(table_stack(configs, s, v))
                        = collate(table_stack(WithoutUser(pre.configs, D), s, v))

\* both paths were bound to the domain, whose user table was not empty; the
\* domain is reset and the other path stays bound to it
C9_Witness ==
    /\ last.op = "remove_source"
    /\ last.path.val \in DOMAIN pre.sources
    /\ LET D == pre.sources[last.path.val]
       IN  /\ \A p \in SourcePaths : p \in DOMAIN pre.sources /\ pre.sources[p] = D
           /\ DOMAIN user_of(pre.configs, D) # {}
           /\ pre.configs[D].cache # base_of(D)
           /\ configs[D].cache = base_of(D)
           /\ \E p \in DOMAIN sources : sources[p] = D

(***************************************************************************)
(* C10: set_user_config(domain, table, path) binds sources[P] = domain iff *)
(* the call succeeds and a path P is given, replacing an earlier binding   *)
(* of P; otherwise the sources are unchanged; update_user_config never     *)
(* changes the sources.                                                    *)
(***************************************************************************)
C10_SourcesBoundOnSuccess ==
    /\ last.op = "update_user_config" => sources = pre.sources
    /\ last.op = "set_user_config"
          => IF last.result.ok /\ last.path.some
             THEN /\ DOMAIN sources = DOMAIN pre.sources \cup {last.path.val}
                  /\ sources[last.path.val] = last.domain
                  /\ \A p \in DOMAIN pre.sources \ {last.path.val} : sources[p] = pre.sources[p]
             ELSE sources = pre.sources

\* a successful set that rebinds a path bound to another domain
C10_Witness ==
    /\ last.op = "set_user_config"
    /\ last.result.ok
    /\ last.path.some
    /\ last.path.val \in DOMAIN pre.sources
    /\ pre.sources[last.path.val] # last.domain
    /\ sources[last.path.val] = last.domain

(***************************************************************************)
(* C11: get_buffer_config never creates a pair and changes nothing of the  *)
(* manager; the chain it returns holds exactly one table per requested     *)
(* domain (UserOverride(view), SysOverride(view), Syntax(syntax), General) *)
(* that has a pair, namely that pair's cache, so its length is the number  *)
(* of requested domains with a pair: 1 for the default manager asked with  *)
(* no syntax and no view.                                                  *)
(***************************************************************************)
C11_QueryReadsPairsOnly ==
    last.op = "get_buffer_config"
        => LET requested == Chain(last.syntax, last.view_id)
               present == SelectSeq(requested, LAMBDA d : d \in DOMAIN pre.configs)
               stack == table_stack(configs, last.syntax, last.view_id)
           IN  /\ Manager = pre
               /\ stack = [i \in 1..Len(present) |-> pre.configs[present[i]].cache]
               /\ Len(stack) = Cardinality({d \in Range(requested) : d \in DOMAIN configs})
               /\ ~snap.panicked => snap.source = stack
               /\ (~last.syntax.some /\ ~last.view_id.some
                     /\ DOMAIN pre.configs = {General, Syntax("Yaml"), Syntax("Makefile")})
                        => Len(stack) = 1

\* a query for a view with no syntax where one of the two override domains
\* of the view has a pair and the other has none
C11_Witness ==
    /\ last.op = "get_buffer_config"
    /\ ~snap.panicked
    /\ ~last.syntax.some
    /\ last.view_id.some
    /\ UserOverride(last.view_id.val) \in DOMAIN configs
    /\ SysOverride(last.view_id.val) \notin DOMAIN configs
    /\ Len(snap.source) = 2

(***************************************************************************)
(* C16: over any sequence of set_user_config, update_user_config,          *)
(* remove_source and get_buffer_config calls the set of domains that have  *)
(* a pair never shrinks, remove_source keeps the pair it resets, a pair    *)
(* that exists is not replaced by a fresh one when its domain is           *)
(* referenced again (a call that fails or does not target it leaves it as  *)
(* it was, an update keeps the user keys it does not name), and the base   *)
(* of every pair is the defaults of its domain.                            *)
(***************************************************************************)
C16_PairsPersist ==
    /\ DOMAIN pre.configs \subseteq DOMAIN configs
    /\ \A d \in DOMAIN configs :
          /\ configs[d].base = defaults_for_domain(d)
          /\ d \in DOMAIN pre.configs => configs[d].base = pre.configs[d].base
    /\ \A d \in DOMAIN pre.configs :
          /\ (Mutation /\ (last.domain # d \/ ~last.result.ok))
                => configs[d] = pre.configs[d]
          /\ last.op \in {"get_buffer_config", "set_config_dir", "set_extras_dir"}
                => configs[d] = pre.configs[d]
          /\ (last.op = "update_user_config" /\ last.domain = d /\ last.result.ok)
                => \A k \in DOMAIN user_of(pre.configs, d) \ DOMAIN last.table :
                      /\ k \in DOMAIN user_of(configs, d)
                      /\ user_of(configs, d)[k] = user_of(pre.configs, d)[k]
          /\ (last.op = "remove_source"
                /\ (last.path.val \notin DOMAIN pre.sources \/ pre.sources[last.path.val] # d))
                => configs[d] = pre.configs[d]

\* an update of a pair that already held a user key the update does not name
C16_Witness ==
    /\ last.op = "update_user_config"
    /\ last.result.ok
    /\ last.domain \in DOMAIN pre.configs
    /\ DOMAIN user_of(pre.configs, last.domain) \ DOMAIN last.table # {}
    /\ DOMAIN last.table # {}

(***************************************************************************)
(* C18: in every reachable state every key of every pair's user table is   *)
(* legal for the kind of the pair's domain, so no Syntax, UserOverride or  *)
(* SysOverride pair holds plugin_search_path in its user table; and        *)
(* plugin_search_path() returns the same before and after a                *)
(* set_user_config, update_user_config or remove_source that targets a     *)
(* domain other than General.                                              *)
(***************************************************************************)
C18_UserKeysLegal ==
    /\ \A d \in DOMAIN configs :
          /\ DOMAIN user_of(configs, d) \subseteq Legal(d)
          /\ d # General => "plugin_search_path" \notin DOMAIN user_of(configs, d)
    /\ (Mutation /\ last.domain # General)
          => plugin_search_path(Manager) = plugin_search_path(pre)
    /\ (last.op = "remove_source" /\ last.path.val \in DOMAIN pre.sources
          /\ pre.sources[last.path.val] # General)
          => plugin_search_path(Manager) = plugin_search_path(pre)

\* a table accepted for a domain other than General while General's user
\* table sets plugin_search_path
C18_Witness ==
    /\ last.op = "set_user_config"
    /\ last.result.ok
    /\ last.domain # General
    /\ DOMAIN last.table # {}
    /\ "plugin_search_path" \in DOMAIN user_of(configs, General)
    /\ ~plugin_search_path(Manager).panicked
    /\ plugin_search_path(Manager)
          # plugin_search_path([Manager EXCEPT !.configs = WithoutUser(configs, General)])

(***************************************************************************)
(* C19: a snapshot returned by get_buffer_config is frozen.  It is built   *)
(* from the cache tables of the pairs only, sharing their Arcs; whatever   *)
(* is set, updated or removed afterwards, to_table() and items of the      *)
(* snapshot (and of the one the caller held before it) stay what they were *)
(* when it was taken, because rebuild installs a new table instead of      *)
(* writing to the shared one.                                              *)
(***************************************************************************)
C19_SnapshotFrozen ==
    /\ \A cfg \in {snap, held.old} :
          (cfg.taken /\ ~cfg.panicked)
             => /\ Len(cfg.arcs) = Len(cfg.source)
                /\ stack_of(heap, cfg) = cfg.source
                /\ to_table(heap, cfg) = collate(cfg.source)
                /\ cfg.items = BufferItems(to_table(heap, cfg))
    /\ (last.op = "get_buffer_config" /\ ~snap.panicked)
          => LET requested == Chain(last.syntax, last.view_id)
                 present == SelectSeq(requested, LAMBDA d : d \in DOMAIN configs)
             IN  /\ Len(snap.arcs) = Len(present)
                 /\ \A i \in 1..Len(present) :
                       /\ snap.arcs[i] = configs[present[i]].arc
                       /\ snap.source[i] = configs[present[i]].cache

\* a snapshot whose chain holds the cache of a pair that was changed after
\* the snapshot was taken, so that the same query would now resolve otherwise
C19_Witness ==
    /\ Mutation
    /\ last.result.ok
    /\ snap.taken
    /\ ~snap.panicked
    /\ \E i \in 1..Len(snap.arcs) :
          /\ snap.arcs[i].dom = last.domain
          /\ snap.arcs[i] # configs[last.domain].arc
          /\ heap[snap.arcs[i]] # configs[last.domain].cache
    /\ to_table(heap, snap) # collate(table_stack(configs, held.syntax, held.view_id))

(***************************************************************************)
(* C14: a set or update whose keys are all legal for the domain is         *)
(* accepted whatever the types of its values, and the values land in the   *)
(* cache; a get_buffer_config whose collated table holds a value of the    *)
(* wrong type for a field of BufferItems, or lacks a field, fails at the   *)
(* typed deserialization instead of returning a snapshot, and a resolve    *)
(* fails exactly as long as its collated table holds such a value.         *)
(***************************************************************************)
C14_TypesCheckedAtRead ==
    /\ (Mutation /\ DOMAIN last.table \subseteq Legal(last.domain))
          => /\ last.result.ok
             /\ \A k \in DOMAIN last.table :
                   (last.op = "set_user_config" \/ ~is_null(last.table[k]))
                      => /\ k \in DOMAIN configs[last.domain].cache
                         /\ configs[last.domain].cache[k] = last.table[k]
    /\ last.op = "get_buffer_config"
          => /\ snap.taken
             /\ snap.panicked
                   <=> IllTyped(collate(table_stack(configs, last.syntax, last.view_id))) # {}
             /\ snap.panicked => (snap.source = <<>> /\ snap.items = EmptyTable)

\* a string accepted as tab_size by an earlier call makes the resolve that
\* sees it fail
C14_Witness ==
    /\ last.op = "get_buffer_config"
    /\ snap.panicked
    /\ LET c == collate(table_stack(configs, last.syntax, last.view_id))
       IN  "tab_size" \in DOMAIN c /\ c["tab_size"].t = "str"

(***************************************************************************)
(* C12: current.diff(previous) is None exactly when every key of           *)
(* collate(current) has the same value under previous.get; otherwise it is *)
(* a non-empty table holding exactly the keys of current whose value       *)
(* differs in previous or that previous lacks, each with current's value;  *)
(* the diff of a stack with itself is None.                                *)
(***************************************************************************)
C12_DiffIsChangedKeys ==
    ret.fn = "diff"
        => LET changed == {k \in KeysOf(ret.this) :
                              \/ Having(ret.other, k) = {}
                              \/ FirstValue(ret.other, k) # FirstValue(ret.this, k)}
           IN  /\ ret.table.some <=> changed # {}
               /\ ret.table.some
                     => /\ DOMAIN ret.table.val = changed
                        /\ \A k \in changed : ret.table.val[k] = FirstValue(ret.this, k)
               /\ ret.this = ret.other => ret.table = None

\* a diff of stacks of two tables where one key is unchanged, so left out,
\* and another key is one that previous lacks
C12_Witness ==
    /\ ret.fn = "diff"
    /\ Len(ret.this) = 2
    /\ ret.table.some
    /\ DOMAIN ret.table.val # KeysOf(ret.this)
    /\ \E k \in DOMAIN ret.table.val : Having(ret.other, k) = {}

C13_SearchPathIsListThenExtras ==
    (last.op = "plugin_search_path"
        /\ configs[General].cache["plugin_search_path"].t = "arr")
        => LET list == configs[General].cache["plugin_search_path"].l
               n == Len(list)
           IN  /\ ~ret.panicked
               /\ Len(ret.paths) = n + (IF extras_dir.some THEN 1 ELSE 0)
               /\ \A i \in 1..n :
                     ret.paths[i] = IF config_dir.some /\ list[i][1] # "/"
                                    THEN config_dir.val \o list[i]
                                    ELSE list[i]
               /\ extras_dir.some => ret.paths[n + 1] = extras_dir.val

\* no config dir, an extras dir that the stored list holds already, and a
\* relative entry that is returned as it is
C13_Witness ==
    /\ last.op = "plugin_search_path"
    /\ ~ret.panicked
    /\ ~config_dir.some
    /\ extras_dir.some
    /\ Len(ret.paths) = 3
    /\ ret.paths[1] = extras_dir.val
    /\ ret.paths[2] = <<"themes">>
    /\ ret.paths[3] = extras_dir.val

(***************************************************************************)
(* C15: should_load_file(path) is true exactly when the path's extension   *)
(* is xiconfig, its file stem names a known domain (preferences or a known *)
(* syntax) and a config dir is set and is the path's parent; so it is      *)
(* false for a file in a subdirectory or in an ancestor of the config dir, *)
(* for another extension, for an unknown stem, and whenever no config dir  *)
(* is set.                                                                 *)
(***************************************************************************)
C15_LoadsOnlyConfigFilesOfDir ==
    last.op = "should_load_file"
        => LET path == ret.path
               named == path # <<"/">>
                          /\ path[Len(path)] \in {"preferences.xiconfig", "rust.xiconfig"}
           IN  /\ ~ret.panicked
               /\ ret.flag <=> /\ named
                               /\ config_dir.some
                               /\ path = Append(config_dir.val, path[Len(path)])
               /\ ~config_dir.some => ~ret.flag

\* a syntax's file in the config dir is loaded
C15_Witness ==
    /\ last.op = "should_load_file"
    /\ ret.flag
    /\ ret.path = <<"/", "cfg", "subdir", "rust.xiconfig">>
    /\ config_dir = Some(<<"/", "cfg", "subdir">>)

(***************************************************************************)
(* C20: for a snapshot old and a snapshot new taken after later calls,     *)
(* new.changes_from(Some(old)) holds exactly the keys of new whose         *)
(* resolved value differs from old's or that old lacked, each with new's   *)
(* value, and is None when nothing changed; new.changes_from(None) is the  *)
(* full collated table of new.                                             *)
(***************************************************************************)
C20_ChangesAreNewValues ==
    last.op = "changes_from"
        => LET new == collate(snap.source)
               old == collate(held.old.source)
               changed == {k \in DOMAIN new : k \notin DOMAIN old \/ old[k] # new[k]}
           IN  /\ ret.flag
                     => /\ ret.table.some <=> changed # {}
                        /\ ret.table.some => ret.table.val = [k \in changed |-> new[k]]
                        /\ new = old => ret.table = None
               /\ ~ret.flag => ret.table = Some(new)

\* the same query before and after a call that set tab_size: the changes
\* are tab_size alone, with the new value
C20_Witness ==
    /\ last.op = "changes_from"
    /\ ret.flag
    /\ held.syntax = held.old_syntax
    /\ held.view_id = held.old_view
    /\ ret.table.some
    /\ DOMAIN ret.table.val = {"tab_size"}
    /\ ret.table.val["tab_size"] = Num(42)
    /\ collate(held.old.source)["tab_size"] # Num(42)

(***************************************************************************)
(* C21: ConfigManager::default() holds exactly three pairs, for General,   *)
(* Syntax(Yaml) and Syntax(Makefile), each with an empty user table and a  *)
(* cache equal to its domain's defaults (tab_size = 2 in the Yaml pair's   *)
(* cache), an empty sources map and no config or extras dir; any other     *)
(* domain gets its pair only from the set_user_config or                   *)
(* update_user_config that first references it.                            *)
(***************************************************************************)
C21_DefaultHoldsThreePairs ==
    /\ last.op = "default"
          => /\ DOMAIN configs = {General, Syntax("Yaml"), Syntax("Makefile")}
             /\ \A d \in DOMAIN configs :
                   /\ user_of(configs, d) = EmptyTable
                   /\ configs[d].cache = base_of(d)
             /\ configs[Syntax("Yaml")].cache["tab_size"] = Num(2)
             /\ configs[General].cache["tab_size"] = Num(4)
             /\ DOMAIN sources = {}
             /\ ~config_dir.some
             /\ ~extras_dir.some
    /\ {General, Syntax("Yaml"), Syntax("Makefile")} \subseteq DOMAIN configs
    /\ \A d \in DOMAIN configs \ {General, Syntax("Yaml"), Syntax("Makefile")} :
          d \notin DOMAIN pre.configs => (Mutation /\ last.domain = d)

\* the pair of a view's override domain made by the first call that names it
C21_Witness ==
    /\ Mutation
    /\ last.domain = UserOverride("view-id-1")
    /\ last.result.ok
    /\ DOMAIN pre.configs = {General, Syntax("Yaml"), Syntax("Makefile")}
    /\ DOMAIN configs = DOMAIN pre.configs \cup {last.domain}

(***************************************************************************)
(* C22: set_user_config(D, ..), update_user_config(D, ..) and              *)
(* remove_source(P) with P bound to D change the pair of D only: base,     *)
(* user table and cache of every other domain's pair are the same before   *)
(* and after the call, whether it succeeds or fails, no pair is made for   *)
(* another domain, and config_dir and extras_dir are not changed.          *)
(***************************************************************************)
C22_OtherDomainsUntouched ==
    (Mutation \/ (last.op = "remove_source" /\ last.path.val \in DOMAIN pre.sources))
        => LET D == IF Mutation THEN last.domain ELSE pre.sources[last.path.val]
           IN  /\ config_dir = pre.config_dir
               /\ extras_dir = pre.extras_dir
               /\ DOMAIN configs \subseteq DOMAIN pre.configs \cup {D}
               /\ \A d \in DOMAIN pre.configs \ {D} :
                     /\ d \in DOMAIN configs
                     /\ configs[d].base = pre.configs[d].base
                     /\ configs[d].user = pre.configs[d].user
                     /\ configs[d].cache = pre.configs[d].cache

\* a path's domain is reset while another domain holds user settings
C22_Witness ==
    /\ last.op = "remove_source"
    /\ last.path.val \in DOMAIN pre.sources
    /\ user_of(pre.configs, pre.sources[last.path.val]) # EmptyTable
    /\ user_of(configs, pre.sources[last.path.val]) = EmptyTable
    /\ \E d \in DOMAIN configs \ {pre.sources[last.path.val]} :
          user_of(configs, d) # EmptyTable

(***************************************************************************)
(* C23: remove_source(P) removes the binding of P and of no other path,    *)
(* also not of another path bound to the domain it resets, so that a       *)
(* second remove_source(P) finds P unbound; remove_source of a path that   *)
(* is not bound changes nothing of the manager; in every reachable state   *)
(* each domain some path is bound to has a pair.                           *)
(***************************************************************************)
C23_RemoveSourceUnbindsOnce ==
    /\ \A p \in DOMAIN sources : sources[p] \in DOMAIN configs
    /\ last.op = "remove_source"
          => /\ last.path.val \notin DOMAIN sources
             /\ DOMAIN sources = DOMAIN pre.sources \ {last.path.val}
             /\ \A q \in DOMAIN sources : sources[q] = pre.sources[q]
             /\ last.path.val \notin DOMAIN pre.sources => Manager = pre

\* one of two paths bound to the same domain is removed, the other stays
C23_Witness ==
    /\ last.op = "remove_source"
    /\ last.path.val \in DOMAIN pre.sources
    /\ \E q \in DOMAIN sources :
          /\ q # last.path.val
          /\ sources[q] = pre.sources[last.path.val]
    /\ user_of(configs, pre.sources[last.path.val]) = EmptyTable

\* remove_source of a path that an earlier remove_source has unbound
C23_SecondRemoveWitness ==
    /\ last.op = "remove_source"
    /\ last.path.val \notin DOMAIN pre.sources
    /\ \E d \in DOMAIN configs : configs[d].user = Some(EmptyTable)
    /\ Manager = pre

(***************************************************************************)
(* C24: when a path P bound to D1 is bound anew by a successful            *)
(* set_user_config(D2, T2, P) with D2 # D1, the pair of D1 is left as it   *)
(* was, so what was loaded from P stays in effect for D1, and P is bound   *)
(* to D2; a later remove_source(P) resets D2 only, and a remove_source     *)
(* changes the user table of a domain only if its path was bound to that   *)
(* domain.                                                                 *)
(***************************************************************************)
C24_RebindingLeavesOldDomain ==
    /\ (last.op = "set_user_config" /\ last.result.ok /\ last.path.some
          /\ last.path.val \in DOMAIN pre.sources
          /\ pre.sources[last.path.val] # last.domain)
          => LET D1 == pre.sources[last.path.val]
             IN  /\ configs[D1] = pre.configs[D1]
                 /\ sources[last.path.val] = last.domain
                 /\ \A q \in DOMAIN pre.sources \ {last.path.val} :
                       q \in DOMAIN sources /\ sources[q] = pre.sources[q]
    /\ last.op = "remove_source"
          => \A d \in DOMAIN pre.configs :
                configs[d].user # pre.configs[d].user
                   => /\ last.path.val \in DOMAIN pre.sources
                      /\ pre.sources[last.path.val] = d

\* a path bound to a domain that holds user settings is bound to another
\* domain, and the first domain keeps them with no path bound to it
C24_Witness ==
    /\ last.op = "set_user_config"
    /\ last.result.ok
    /\ last.path.some
    /\ last.path.val \in DOMAIN pre.sources
    /\ pre.sources[last.path.val] # last.domain
    /\ user_of(configs, pre.sources[last.path.val]) # EmptyTable
    /\ \A q \in DOMAIN sources : sources[q] # pre.sources[last.path.val]

\* remove_source of a path whose domain is reset while a domain that holds
\* user settings and has no path bound to it keeps them
C24_RemoveWitness ==
    /\ last.op = "remove_source"
    /\ last.path.val \in DOMAIN pre.sources
    /\ \E d \in DOMAIN configs \ {pre.sources[last.path.val]} :
          /\ user_of(configs, d) # EmptyTable
          /\ \A q \in DOMAIN pre.sources : pre.sources[q] # d

(***************************************************************************)
(* C25: the two mutations treat null differently.  An accepted             *)
(* set_user_config(D, T) with T[k] = null stores the null in the user      *)
(* table, so cache[k] = null masks base[k]; an accepted                    *)
(* update_user_config(D, {k: null}) removes k from the user table, so the  *)
(* cache shows base[k], or has no k when base has none; a resolve that     *)
(* sees a null for a field of BufferItems fails at the typed               *)
(* deserialization.                                                        *)
(***************************************************************************)
C25_NullStoredBySetRemovedByUpdate ==
    /\ (last.op = "set_user_config" /\ last.result.ok)
          => \A k \in DOMAIN last.table :
                is_null(last.table[k])
                   => /\ k \in DOMAIN user_of(configs, last.domain)
                      /\ is_null(user_of(configs, last.domain)[k])
                      /\ is_null(configs[last.domain].cache[k])
    /\ (last.op = "update_user_config" /\ last.result.ok)
          => \A k \in DOMAIN last.table :
                is_null(last.table[k])
                   => /\ k \notin DOMAIN user_of(configs, last.domain)
                      /\ IF k \in DOMAIN base_of(last.domain)
                         THEN configs[last.domain].cache[k] = base_of(last.domain)[k]
                         ELSE k \notin DOMAIN configs[last.domain].cache
    /\ last.op = "get_buffer_config"
          => LET c == collate(table_stack(configs, last.syntax, last.view_id))
             IN  (\E k \in GENERAL_KEYS \cap DOMAIN c : is_null(c[k])) => snap.panicked

\* a resolve fails on the null that a set_user_config stored for tab_size
\* over a base that holds a number
C25_Witness ==
    /\ last.op = "get_buffer_config"
    /\ snap.panicked
    /\ \E d \in Range(Chain(last.syntax, last.view_id)) \cap DOMAIN configs :
          /\ "tab_size" \in DOMAIN user_of(configs, d)
          /\ is_null(user_of(configs, d)["tab_size"])
          /\ is_null(collate(table_stack(configs, last.syntax, last.view_id))["tab_size"])
    /\ ~is_null(base_of(General)["tab_size"])

\* an update with null takes back the null a set stored: the cache shows
\* the base value again
C25_UpdateWitness ==
    /\ last.op = "update_user_config"
    /\ last.result.ok
    /\ "tab_size" \in DOMAIN last.table
    /\ is_null(last.table["tab_size"])
    /\ "tab_size" \in DOMAIN user_of(pre.configs, last.domain)
    /\ is_null(user_of(pre.configs, last.domain)["tab_size"])
    /\ last.domain = General
    /\ configs[General].cache["tab_size"] = Num(4)

====
